---- MODULE Spec2Model ----
(***************************************************************************)
(* Model of bertcode/BERTTask2_combineloss_EmotionalPolarity.py:           *)
(*   - the ordinal bucketizer (value_to_class, pandas.cut) and the label   *)
(*     Task2Dataset.__getitem__ hands out                 (SpecBucket)     *)
(*   - create_hierarchical_penalty_matrix and CombinedLoss (SpecLoss)      *)
(*   - evaluate() and the training loop                    (SpecTrain)     *)
(*                                                                         *)
(* Number representation.  Scores and bin edges are integers in units of   *)
(* 1/20 (0.25 is 5, 3 is 60).  alpha, beta and thegma are integers in      *)
(* units of 1/10 (0.8 is 8).  Correlation thresholds are integers in units *)
(* of 1/100 (0.62 is 62).  Values that involve exp or log are kept as      *)
(* terms: what is computed on them is their kind (number, zero, infinity,  *)
(* NaN) and their order, following IEEE-754 single precision.             *)
(***************************************************************************)
EXTENDS Integers, Sequences, FiniteSets, TLC

VARIABLES
    \* ---- data frame row and dataset item (SpecBucket)
    df_row,          \* [frame, EmotionalPolarity, EmotionalPolarityClass]
    item,            \* what __getitem__ returned for the row: [labels] or NoItem
    bpc,             \* position of the data pipeline: "loaded", "classed", "handed"
    \* ---- the CombinedLoss object and its last call (SpecLoss)
    num_classes, alpha, beta, thegma,
    penalty_matrix,  \* [device, data]
    logits, targets, \* arguments of the last forward call
    ret,             \* value the last forward call returned, or NoCall
    lpc,             \* "new" (not constructed), "idle", "called", "returned"
    \* ---- the training script (SpecTrain)
    df_dev,          \* the dev frame: sequence of EmotionalPolarity scores
    device,          \* torch.device the script runs on
    pc,              \* "train", "eval", "save", "next", "done"
    epoch,           \* loop variable of `for epoch in range(epochs)`
    train_i,         \* training batches of this epoch already processed
    dev_i,           \* dev batches of this evaluation already processed
    outputs,         \* model scores of the dev samples seen by this evaluation
    y_pred, y_truth, total_eval_accuracy,
    eval_res,        \* (average_eval_accuracy, pearson_corr) or NoRes
    max_correlation,
    wrote_dumps,     \* evaluate() of this epoch wrote the y_truth / y_pred files
    wrote_checkpoint,\* this epoch wrote a model checkpoint
    saved_perfect,   \* history: an earlier epoch saved a checkpoint with correlation 1
    loss_calls,      \* history: calls of loss_func so far
    opt_steps,       \* history: calls of optimizer.step so far
    evals            \* history: calls of evaluate that returned

bucketVars == <<df_row, item, bpc>>
lossVars   == <<num_classes, alpha, beta, thegma, penalty_matrix, logits, targets, ret, lpc>>
trainVars  == <<df_dev, device, pc, epoch, train_i, dev_i, outputs, y_pred, y_truth,
                total_eval_accuracy, eval_res, max_correlation, wrote_dumps,
                wrote_checkpoint, saved_perfect, loss_calls, opt_steps, evals>>
vars == <<bucketVars, lossVars, trainVars>>

(***************************************************************************)
(* Bounds of the model.                                                    *)
(***************************************************************************)
ScoreBelow == 8        \* scores range from -ScoreBelow/20 ...
MaxScore == 64         \* ... to MaxScore/20
PenaltyMaxClasses == 5 \* num_classes tried on the penalty matrix alone
MaxGamma == 12         \* thegma ranges over -MaxGamma/10 .. MaxGamma/10 ...
BigGamma == 600        \* ... and BigGamma/10
MaxClasses == 2        \* num_classes of the loss objects that are called
LossBatch == 2         \* samples in a batch handed to forward
NumDev == 2            \* rows of the dev frame
BatchSize == 1         \* batch_size of the loaders (32 in the script)
NumTrainBatches == 2   \* len(train_loader)

(***************************************************************************)
(* Ordinal bucketizer.                                                     *)
(***************************************************************************)
emotionalPolarity_bins == <<-5, 5, 15, 25, 35, 60>>
emotionalPolarity_groups == <<0, 1, 2, 3, 4>>

\* A cell of the class column: a category code, or the missing value (NaN)
\* pandas.cut yields; a frame that has no class column yet reads as missing.
Class(k) == [isna |-> FALSE, code |-> k]
NaNClass == [isna |-> TRUE, code |-> 0]

\* numpy searchsorted(bins, x, side): the number of edges before the insertion
\* point; side = "left" puts x before equal edges, side = "right" after them.
searchsorted(bins, x, side) ==
    Cardinality({i \in 1..Len(bins) :
                    IF side = "left" THEN bins[i] < x ELSE bins[i] <= x})

\* pandas.cut(x, bins, labels=groups, right=False): intervals closed on the left.
cut_left_closed(bins, groups, x) ==
    LET ids == searchsorted(bins, x, "right")
    IN  IF ids = 0 \/ ids = Len(bins) THEN NaNClass ELSE Class(groups[ids])

\* pandas.cut(x, bins, labels=groups) with the default right=True:
\* ids = bins.searchsorted(x, side="left"); ids = 0 and ids = len(bins) are
\* masked as missing; the others take labels[ids - 1].
cut(bins, groups, x) ==
    LET ids == searchsorted(bins, x, "left")
    IN  IF ids = 0 \/ ids = Len(bins) THEN NaNClass ELSE Class(groups[ids])

\* value_to_class(bins, groups, df_name, column_name) on one row: adds the
\* column "<column_name>Class".
value_to_class(bins, groups, row) ==
    [row EXCEPT !.EmotionalPolarityClass = cut(bins, groups, row.EmotionalPolarity)]

\* torch.tensor(v, dtype=torch.long) of a float: truncation toward zero.
to_long(v) == IF v >= 0 THEN v \div 20 ELSE -((-v) \div 20)

\* Task2Dataset.__getitem__: label = dataframe.iloc[idx]['EmotionalPolarity'].
getitem_labels(row) == to_long(row.EmotionalPolarity)

(***************************************************************************)
(* Single-precision values.                                                *)
(*   an entry of the penalty matrix: [k |-> "zero" | "exp" | "inf", e]     *)
(*     "exp" stands for the positive finite number exp(e/10); of two such  *)
(*     entries the one with the larger e is not the smaller number.        *)
(*   a loss value: [k |-> "num" | "inf" | "nan", t] with t the term.       *)
(***************************************************************************)
ExpUnderflow == 1040   \* exp(x) rounds to 0 in float32 for x <= -104.0
ExpOverflow == 888     \* exp(x) is inf in float32 for x >= 88.8

\* torch.exp on a float32 tensor, the argument x given in tenths
Exp32(x) ==
    IF x <= -ExpUnderflow THEN [k |-> "zero", e |-> 0]
    ELSE IF x >= ExpOverflow THEN [k |-> "inf", e |-> 0]
    ELSE [k |-> "exp", e |-> x]

Abs(x) == IF x < 0 THEN -x ELSE x

F_nan == [k |-> "nan", t |-> <<>>]
F_inf == [k |-> "inf", t |-> <<>>]
F_zero == [k |-> "num", t |-> <<"zero">>]
F_num(t) == [k |-> "num", t |-> t]

RECURSIVE SumTo(_, _)
\* f[1] + ... + f[n]
SumTo(f, n) == IF n = 0 THEN 0 ELSE f[n] + SumTo(f, n - 1)

Classes(n) == 0..(n - 1)

\* exp(-thegma * (j - i)): the penalty without torch.abs
signed_penalty_matrix(n, g) ==
    [i \in Classes(n) |-> [j \in Classes(n) |-> Exp32((-g) * (j - i))]]

\* indices = arange(n).unsqueeze(0); absolute_differences = |indices - indices.T|
\* (entry (i, j) is |j - i|); penalty_matrix = exp(-thegma * absolute_differences)
create_hierarchical_penalty_matrix(n, g) ==
    [i \in Classes(n) |-> [j \in Classes(n) |-> Exp32((-g) * Abs(j - i))]]

\* tensor.to(dtype=torch.long): every entry truncated to an integer
to_device_long(t, dev) ==
    [device |-> dev,
     data |-> [i \in DOMAIN t.data |-> [j \in DOMAIN t.data[i] |->
                 IF t.data[i][j].k = "exp" /\ t.data[i][j].e < 0
                 THEN [k |-> "zero", e |-> 0] ELSE t.data[i][j]]]]

\* tensor.to(device): the same values on the device
to_device(t, dev) == [device |-> dev, data |-> t.data]

\* penalties = self.penalty_matrix[targets, :]
penalties(pm, tg) == [b \in DOMAIN tg |-> pm.data[tg[b]]]

\* weighted_log_probs = penalties * F.log_softmax(logits, dim=1), entry by entry.
\* For the finite logits of the model every log-probability is a finite
\* negative number, named here by its row of logits and its class.
weighted_log_probs(pm, lg, tg) ==
    [b \in DOMAIN lg |-> [j \in DOMAIN lg[b] |->
        [penalty |-> penalties(pm, tg)[b][j], row |-> lg[b], class |-> j]]]

\* -torch.sum(weighted_log_probs, dim=1).mean(): a product with an infinite
\* penalty is -inf, and so is every sum that has it as a summand.
structured_contrastive_loss(pm, lg, tg) ==
    LET w == weighted_log_probs(pm, lg, tg)
    IN  IF \E b \in DOMAIN w : \E j \in DOMAIN w[b] : w[b][j].penalty.k = "inf"
        THEN F_inf
        ELSE F_num(<<"structured", w>>)

\* x / y in IEEE arithmetic for an integer numerator and a denominator that
\* is the product of the square roots of two non-negative integers
div_by_roots(n, sx, sy) ==
    IF sx = 0 \/ sy = 0
    THEN IF n = 0 THEN F_nan ELSE F_inf
    ELSE F_num(<<"corr", n, sx, sy>>)

\* lines 56-67.  With N = B*C entries, each centered entry is kept times N
\* (N*x - sum(x)), which cancels in the quotient.
pearson_loss(lg, tg, n) ==
    LET B == Cardinality(DOMAIN lg)
        N == B * n
        logits_flat == [i \in 1..N |-> lg[((i - 1) \div n) + 1][(i - 1) % n]]
        targets_flat == [i \in 1..N |->
                           IF tg[((i - 1) \div n) + 1] = (i - 1) % n THEN 1 ELSE 0]
        logits_centered == [i \in 1..N |-> N * logits_flat[i] - SumTo(logits_flat, N)]
        targets_centered == [i \in 1..N |-> N * targets_flat[i] - SumTo(targets_flat, N)]
        sxy == SumTo([i \in 1..N |-> logits_centered[i] * targets_centered[i]], N)
        sxx == SumTo([i \in 1..N |-> logits_centered[i] * logits_centered[i]], N)
        syy == SumTo([i \in 1..N |-> targets_centered[i] * targets_centered[i]], N)
    IN  div_by_roots(-sxy, sxx, syy)

\* c * v for a coefficient c given in tenths
F_scale(c, v) ==
    IF v.k = "nan" THEN F_nan
    ELSE IF v.k = "inf" THEN (IF c = 0 THEN F_nan ELSE F_inf)
    ELSE IF c = 0 THEN F_zero
    ELSE IF c = 10 THEN v
    ELSE F_num(<<"scale", c, v.t>>)

\* a + b; the infinite values met here all have the same sign
F_add(a, b) ==
    IF a.k = "nan" \/ b.k = "nan" THEN F_nan
    ELSE IF a.k = "inf" \/ b.k = "inf" THEN F_inf
    ELSE IF b = F_zero THEN a
    ELSE IF a = F_zero THEN b
    ELSE F_num(<<"add", a.t, b.t>>)

\* combined_loss = self.alpha * structured_contrastive_loss + self.beta * pearson_loss
combine(a, ca, b, cb) == F_add(F_scale(ca, a), F_scale(cb, b))

\* CombinedLoss.forward: the value returned
forward(pm, n, a, b, lg, tg) ==
    combine(structured_contrastive_loss(pm, lg, tg), a, pearson_loss(lg, tg, n), b)


(***************************************************************************)
(* evaluate() and the training loop.                                       *)
(***************************************************************************)
NoItem == [labels |-> -1, handed |-> FALSE]
NoTensor == [device |-> "cpu", data |-> <<>>]
NoCall == [k |-> "none", t |-> <<>>]
Devices == {"cpu", "cuda"}
LogitVals == {0, 1}

epochs == 10
num_labels == Len(emotionalPolarity_groups)

DevScores == {20, 60}
\* model outputs for one sample: one class scored 1, the others 0
LogitRows == {[j \in Classes(num_labels) |-> IF j = k THEN 1 ELSE 0] : k \in Classes(num_labels)}

\* len(dev_loader) and the rows of its k-th batch (shuffle=False)
NumDevBatches == (NumDev + BatchSize - 1) \div BatchSize
BatchRows(k) ==
    [i \in 1..(IF k * BatchSize <= NumDev THEN BatchSize ELSE NumDev - (k - 1) * BatchSize)
       |-> (k - 1) * BatchSize + i]

\* torch.argmax over the classes: the first index that holds the maximum
ArgMax(row) ==
    CHOOSE j \in DOMAIN row :
        /\ \A i \in DOMAIN row : row[i] <= row[j]
        /\ \A i \in DOMAIN row : row[i] = row[j] => j <= i

\* pearson(y_pred, y_truth): PearsonCorrCoef called on two integer vectors of
\* length n returns the coefficient of these two vectors, the covariance over
\* the product of the standard deviations (each kept times n here); it is NaN
\* when a vector is constant.
pearson(x, y) ==
    LET n == Len(x)
        sx == SumTo(x, n)
        sy == SumTo(y, n)
        cov == n * SumTo([i \in 1..n |-> x[i] * y[i]], n) - sx * sy
        vx == n * SumTo([i \in 1..n |-> x[i] * x[i]], n) - sx * sx
        vy == n * SumTo([i \in 1..n |-> y[i] * y[i]], n) - sy * sy
    IN  div_by_roots(cov, vx, vy)

\* v > h/100 for a correlation v (false for NaN, like every comparison with NaN)
F_gt(v, h) ==
    /\ v.k = "num"
    /\ v.t[2] > 0
    /\ v.t[2] * v.t[2] * 10000 > h * h * v.t[3] * v.t[4]

\* q > h/100 for a fraction q = <<numerator, denominator>>
Q_gt(q, h) == q[1] * 100 > h * q[2]
Q_add(q, r) == <<q[1] * r[2] + r[1] * q[2], q[2] * r[2]>>

NoRes == <<>>

\* `if (epoch+1) % 2 == 0`: evaluation every second epoch
EvalDue_every_second(e) == (e + 1) % 2 = 0
\* line 247: if (epoch+1) % 1 == 0
EvalDue(e) == (e + 1) % 1 = 0

\* `if result > 0.6`
dump_condition_06(result) == F_gt(result, 60)
\* line 210: if result > 0.63
dump_condition(result) == F_gt(result, 63)

\* `if eval_res[0] > max_correlation`: the accuracy compared instead
save_condition_accuracy(res, threshold) == Q_gt(res[1], threshold)
\* line 252: if eval_res[1] > max_correlation
save_condition(res, threshold) == F_gt(res[2], threshold)

dev_row(s) ==
    value_to_class(emotionalPolarity_bins, emotionalPolarity_groups,
                   [frame |-> "df_dev", EmotionalPolarity |-> s,
                    EmotionalPolarityClass |-> NaNClass])

(***************************************************************************)
(* The data pipeline: one row of a frame through value_to_class and        *)
(* Task2Dataset.__getitem__.                                               *)
(***************************************************************************)
InitBucket ==
    /\ df_row \in [frame : {"df", "df_dev"},
                   EmotionalPolarity : (-ScoreBelow)..MaxScore,
                   EmotionalPolarityClass : {NaNClass}]
    /\ item = NoItem
    /\ bpc = "loaded"
    /\ lpc = "new"
    /\ num_classes = 5 /\ alpha = 8 /\ beta = 2 /\ thegma = 8
    /\ penalty_matrix = NoTensor
    /\ logits = <<>> /\ targets = <<>> /\ ret = NoCall
    /\ df_dev = <<>> /\ device = "cpu" /\ pc = "done" /\ epoch = 0 /\ train_i = 0
    /\ dev_i = 0 /\ outputs = <<>> /\ y_pred = <<>> /\ y_truth = <<>>
    /\ total_eval_accuracy = <<0, 1>> /\ eval_res = NoRes /\ max_correlation = 0
    /\ wrote_dumps = FALSE /\ wrote_checkpoint = FALSE /\ saved_perfect = FALSE
    /\ loss_calls = 0 /\ opt_steps = 0 /\ evals = 0

\* lines 97 and 101: the class column is derived for the train and the dev frame
ValueToClass ==
    /\ bpc = "loaded"
    /\ df_row' = value_to_class(emotionalPolarity_bins, emotionalPolarity_groups, df_row)
    /\ bpc' = "classed"
    /\ UNCHANGED item
    /\ UNCHANGED <<lossVars, trainVars>>

\* the data loader asks the dataset for the row
GetItem ==
    /\ bpc = "classed"
    /\ item' = [labels |-> getitem_labels(df_row), handed |-> TRUE]
    /\ bpc' = "handed"
    /\ UNCHANGED df_row
    /\ UNCHANGED <<lossVars, trainVars>>

NextBucket == ValueToClass \/ GetItem

(***************************************************************************)
(* CombinedLoss: construction and calls.                                   *)
(***************************************************************************)
\* CombinedLoss.__init__
Construct(n, a, b, g) ==
    /\ num_classes' = n
    /\ alpha' = a
    /\ beta' = b
    /\ thegma' = g
    /\ penalty_matrix' = [device |-> "cpu", data |-> create_hierarchical_penalty_matrix(n, g)]

\* ---- the penalty matrix alone (SpecPenalty)
GammaValues == ((-MaxGamma)..MaxGamma) \cup {BigGamma}

InitPenalty ==
    /\ lpc = "new"
    /\ num_classes \in 1..PenaltyMaxClasses
    /\ thegma \in GammaValues
    /\ alpha = 8 /\ beta = 2
    /\ penalty_matrix = NoTensor
    /\ logits = <<>> /\ targets = <<>> /\ ret = NoCall
    /\ df_row = [frame |-> "df", EmotionalPolarity |-> 0, EmotionalPolarityClass |-> NaNClass]
    /\ item = NoItem
    /\ bpc = "loaded"
    /\ df_dev = <<>> /\ device = "cpu" /\ pc = "done" /\ epoch = 0 /\ train_i = 0
    /\ dev_i = 0 /\ outputs = <<>> /\ y_pred = <<>> /\ y_truth = <<>>
    /\ total_eval_accuracy = <<0, 1>> /\ eval_res = NoRes /\ max_correlation = 0
    /\ wrote_dumps = FALSE /\ wrote_checkpoint = FALSE /\ saved_perfect = FALSE
    /\ loss_calls = 0 /\ opt_steps = 0 /\ evals = 0

CombinedLoss_init ==
    /\ lpc = "new"
    /\ Construct(num_classes, alpha, beta, thegma)
    /\ lpc' = "idle"
    /\ UNCHANGED <<logits, targets, ret>>
    /\ UNCHANGED <<bucketVars, trainVars>>

NextPenalty == CombinedLoss_init

\* ---- the loss object and its calls (SpecLoss)
InitLoss ==
    /\ lpc = "idle"
    /\ num_classes \in 2..MaxClasses
    /\ thegma \in {0, 8}
    /\ \E ab \in {<<8, 2>>, <<10, 0>>} : alpha = ab[1] /\ beta = ab[2]
    /\ penalty_matrix =
         [device |-> "cpu", data |-> create_hierarchical_penalty_matrix(num_classes, thegma)]
    /\ logits = <<>> /\ targets = <<>> /\ ret = NoCall
    /\ df_row = [frame |-> "df", EmotionalPolarity |-> 0, EmotionalPolarityClass |-> NaNClass]
    /\ item = NoItem
    /\ bpc = "loaded"
    /\ df_dev = <<>> /\ device = "cpu" /\ pc = "done" /\ epoch = 0 /\ train_i = 0
    /\ dev_i = 0 /\ outputs = <<>> /\ y_pred = <<>> /\ y_truth = <<>>
    /\ total_eval_accuracy = <<0, 1>> /\ eval_res = NoRes /\ max_correlation = 0
    /\ wrote_dumps = FALSE /\ wrote_checkpoint = FALSE /\ saved_perfect = FALSE
    /\ loss_calls = 0 /\ opt_steps = 0 /\ evals = 0

\* loss_func(logits, labels): the caller binds the arguments
Call ==
    /\ lpc = "idle"
    /\ \E dev \in Devices :
       \E lg \in [1..LossBatch -> [Classes(num_classes) -> LogitVals]] :
       \E tg \in [1..LossBatch -> Classes(num_classes)] :
          /\ logits' = [device |-> dev, data |-> lg]
          /\ targets' = tg
    /\ lpc' = "called"
    /\ UNCHANGED <<num_classes, alpha, beta, thegma, penalty_matrix, ret>>
    /\ UNCHANGED <<bucketVars, trainVars>>

\* the body of CombinedLoss.forward
Forward ==
    /\ lpc = "called"
    /\ penalty_matrix' = to_device(penalty_matrix, logits.device)
    /\ ret' = forward(penalty_matrix', num_classes, alpha, beta, logits.data, targets)
    /\ lpc' = "returned"
    /\ UNCHANGED <<num_classes, alpha, beta, thegma, logits, targets>>
    /\ UNCHANGED <<bucketVars, trainVars>>

\* the caller takes the loss; the arguments go out of scope
Return ==
    /\ lpc = "returned"
    /\ logits' = <<>> /\ targets' = <<>> /\ ret' = NoCall
    /\ lpc' = "idle"
    /\ UNCHANGED <<num_classes, alpha, beta, thegma, penalty_matrix>>
    /\ UNCHANGED <<bucketVars, trainVars>>

NextLoss == Call \/ Forward \/ Return

(***************************************************************************)
(* The training script.                                                    *)
(***************************************************************************)
InitTrain ==
    /\ df_dev \in [1..NumDev -> {dev_row(s) : s \in DevScores}]
    /\ device \in Devices
    /\ pc = "train"
    /\ epoch = 0
    /\ train_i = 0
    /\ dev_i = 0
    /\ outputs = <<>>
    /\ y_pred = <<>>
    /\ y_truth = <<>>
    /\ total_eval_accuracy = <<0, 1>>
    /\ eval_res = NoRes
    /\ max_correlation = 0
    /\ wrote_dumps = FALSE
    /\ wrote_checkpoint = FALSE
    /\ saved_perfect = FALSE
    /\ loss_calls = 0
    /\ opt_steps = 0
    /\ evals = 0
    \* loss_func = CombinedLoss(num_classes=5, alpha=0.8, beta=0.2, thegma=0.8)
    /\ lpc = "idle"
    /\ num_classes = 5 /\ alpha = 8 /\ beta = 2 /\ thegma = 8
    /\ penalty_matrix =
         [device |-> "cpu", data |-> create_hierarchical_penalty_matrix(5, 8)]
    /\ logits = <<>> /\ targets = <<>> /\ ret = NoCall
    /\ df_row = [frame |-> "df", EmotionalPolarity |-> 0, EmotionalPolarityClass |-> NaNClass]
    /\ item = NoItem
    /\ bpc = "loaded"

\* lines 233-245: one training batch.  The loss value only feeds backward()
\* and total_loss, which nothing reads; what the call leaves behind is the
\* penalty matrix on the device of the logits.
TrainBatch ==
    /\ pc = "train"
    /\ train_i < NumTrainBatches
    /\ penalty_matrix' = to_device(penalty_matrix, device)
    /\ loss_calls' = loss_calls + 1
    /\ opt_steps' = opt_steps + 1
    /\ train_i' = train_i + 1
    /\ UNCHANGED <<df_dev, device, pc, epoch, dev_i, outputs, y_pred, y_truth,
                   total_eval_accuracy, eval_res, max_correlation, wrote_dumps,
                   wrote_checkpoint, saved_perfect, evals>>
    /\ UNCHANGED <<num_classes, alpha, beta, thegma, logits, targets, ret, lpc>>
    /\ UNCHANGED bucketVars

\* lines 247-249 and 164-167: the training batches are exhausted; evaluate()
\* is entered with y_pred = y_truth = tensor([0, 0])
EndTrain ==
    /\ pc = "train"
    /\ train_i = NumTrainBatches
    /\ IF EvalDue(epoch)
       THEN /\ max_correlation' = 62
            /\ total_eval_accuracy' = <<0, 1>>
            /\ y_pred' = <<0, 0>>
            /\ y_truth' = <<0, 0>>
            /\ outputs' = <<>>
            /\ dev_i' = 0
            /\ pc' = "eval"
       ELSE /\ pc' = "next"
            /\ UNCHANGED <<max_correlation, total_eval_accuracy, y_pred, y_truth,
                           outputs, dev_i>>
    /\ UNCHANGED <<df_dev, device, epoch, train_i, eval_res, wrote_dumps,
                   wrote_checkpoint, saved_perfect, loss_calls, opt_steps, evals>>
    /\ UNCHANGED <<lossVars, bucketVars>>

\* lines 170-186: one dev batch; the model's scores are its input
EvalBatch ==
    /\ pc = "eval"
    /\ dev_i < NumDevBatches
    /\ LET rows == BatchRows(dev_i + 1)
       IN  \E batch_logits \in [DOMAIN rows -> LogitRows] :
             LET labels == [i \in DOMAIN rows |-> getitem_labels(df_dev[rows[i]])]
                 preds == [i \in DOMAIN rows |-> ArgMax(batch_logits[i])]
                 correct == Cardinality({i \in DOMAIN rows : preds[i] = labels[i]})
             IN  /\ outputs' = outputs \o batch_logits
                 /\ y_pred' = y_pred \o preds
                 /\ y_truth' = y_truth \o labels
                 /\ total_eval_accuracy' =
                        Q_add(total_eval_accuracy, <<correct, Len(rows)>>)
    /\ dev_i' = dev_i + 1
    /\ UNCHANGED <<df_dev, device, pc, epoch, train_i, eval_res, max_correlation,
                   wrote_dumps, wrote_checkpoint, saved_perfect, loss_calls,
                   opt_steps, evals>>
    /\ UNCHANGED <<lossVars, bucketVars>>

\* lines 206-226: the correlation, the dumps, the return; the locals of
\* evaluate() go out of scope
EvalFinish ==
    /\ pc = "eval"
    /\ dev_i = NumDevBatches
    /\ LET pearson_corr == pearson(y_pred, y_truth)
           average_eval_accuracy ==
               <<total_eval_accuracy[1], total_eval_accuracy[2] * NumDevBatches>>
       IN  /\ wrote_dumps' = dump_condition(pearson_corr)
           /\ eval_res' = <<average_eval_accuracy, pearson_corr>>
    /\ y_pred' = <<>>
    /\ y_truth' = <<>>
    /\ outputs' = <<>>
    /\ total_eval_accuracy' = <<0, 1>>
    /\ evals' = evals + 1
    /\ pc' = "save"
    /\ UNCHANGED <<df_dev, device, epoch, train_i, dev_i, max_correlation,
                   wrote_checkpoint, saved_perfect, loss_calls, opt_steps>>
    /\ UNCHANGED <<lossVars, bucketVars>>

\* lines 251-253: the checkpoint
Save ==
    /\ pc = "save"
    /\ wrote_checkpoint' = save_condition(eval_res, max_correlation)
    /\ pc' = "next"
    /\ UNCHANGED <<df_dev, device, epoch, train_i, dev_i, outputs, y_pred, y_truth,
                   total_eval_accuracy, eval_res, max_correlation, wrote_dumps,
                   saved_perfect, loss_calls, opt_steps, evals>>
    /\ UNCHANGED <<lossVars, bucketVars>>

IsPerfect(res) == res # NoRes /\ res[2].k = "num" /\ res[2].t[2] > 0
                  /\ res[2].t[2] * res[2].t[2] = res[2].t[3] * res[2].t[4]

\* line 229: the next iteration of `for epoch in range(epochs)`, or the end of
\* the script.  eval_res is overwritten before it is read again, so its old
\* value is dropped here.
NextEpoch ==
    /\ pc = "next"
    /\ epoch' = epoch + 1
    /\ pc' = IF epoch + 1 < epochs THEN "train" ELSE "done"
    /\ train_i' = 0
    /\ saved_perfect' = (saved_perfect \/ (wrote_checkpoint /\ IsPerfect(eval_res)))
    /\ wrote_dumps' = FALSE
    /\ wrote_checkpoint' = FALSE
    /\ eval_res' = NoRes
    /\ UNCHANGED <<df_dev, device, dev_i, outputs, y_pred, y_truth,
                   total_eval_accuracy, max_correlation, loss_calls, opt_steps, evals>>
    /\ UNCHANGED <<lossVars, bucketVars>>

NextTrain == TrainBatch \/ EndTrain \/ EvalBatch \/ EvalFinish \/ Save \/ NextEpoch

(***************************************************************************)
(* Specifications.  Each one runs one part of the program and holds the    *)
(* variables of the other parts at their initial values.                   *)
(***************************************************************************)
SpecBucket == InitBucket /\ [][NextBucket]_vars
SpecPenalty == InitPenalty /\ [][NextPenalty]_vars
SpecLoss == InitLoss /\ [][NextLoss]_vars
SpecTrain == InitTrain /\ [][NextTrain]_vars

(***************************************************************************)
(* Properties.                                                             *)
(***************************************************************************)
Score == df_row.EmotionalPolarity
PolarityClass == df_row.EmotionalPolarityClass

\* C1: the label the dataset hands to the loops is the ordinal class the
\* bucketizer derived from the sample's EmotionalPolarity score.
C1_LabelIsOrdinalClass ==
    (bpc = "handed" /\ ~PolarityClass.isna) => item.labels = PolarityClass.code

\* C2: with the EmotionalPolarity edges, a score s gets the class k of the
\* interval edges[k] < s <= edges[k+1] (so -0.1, 0.5, 1.0, 1.5, 2.9 get 0, 1,
\* 2, 3, 4 and a score on a shared edge gets the lower class), and a score in
\* no interval (s <= -0.25 or s > 3) gets the missing class, unclamped.
C2_HalfOpenIntervals ==
    bpc # "loaded" =>
      /\ \A k \in 1..5 :
           (emotionalPolarity_bins[k] < Score /\ Score <= emotionalPolarity_bins[k + 1])
             => PolarityClass = Class(k - 1)
      /\ (Score <= -5 \/ Score > 60) => PolarityClass = NaNClass
      /\ (Score = -2 => PolarityClass = Class(0))
      /\ (Score = 10 => PolarityClass = Class(1))
      /\ (Score = 20 => PolarityClass = Class(2))
      /\ (Score = 30 => PolarityClass = Class(3))
      /\ (Score = 58 => PolarityClass = Class(4))

\* a score on the edge shared by classes 1 and 2 has been classed (as 1)
C2_Witness == bpc = "classed" /\ Score = 15 /\ PolarityClass = Class(1)

\* C3: at the end of an epoch a checkpoint has been written exactly if the
\* correlation evaluate() returned is above 0.62, and the threshold in force
\* is 0.62 in every epoch, whatever earlier epochs returned.
C3_CheckpointIffAbove062 ==
    /\ pc = "next" => /\ eval_res # NoRes
                      /\ wrote_checkpoint <=> F_gt(eval_res[2], 62)
    /\ pc \in {"eval", "save", "next"} => max_correlation = 62
    /\ pc \notin {"next"} => ~wrote_checkpoint

\* an epoch saves a checkpoint with a correlation below that of an earlier
\* saved epoch
C3_Witness ==
    pc = "next" /\ wrote_checkpoint /\ saved_perfect /\ ~IsPerfect(eval_res)

\* C4: when the correlation is computed, y_pred and y_truth hold exactly one
\* entry per dev sample, in order: the argmax of the sample's scores and the
\* sample's label.
C4_ExactlyTheDevSamples ==
    (pc = "eval" /\ dev_i = NumDevBatches) =>
      /\ Len(y_pred) = NumDev
      /\ Len(y_truth) = NumDev
      /\ \A n \in 1..NumDev :
           /\ n \in DOMAIN y_pred /\ y_pred[n] = ArgMax(outputs[n])
           /\ n \in DOMAIN y_truth /\ y_truth[n] = getitem_labels(df_dev[n])

\* C5: forward returns a finite number for every batch that holds at least
\* two distinct labels.
C5_FiniteForTwoLabels ==
    (lpc = "returned" /\ \E b1, b2 \in DOMAIN targets : targets[b1] # targets[b2])
      => ret.k = "num"

\* C6: evaluate() writes the dumps exactly if the correlation is above 0.63,
\* and an epoch that wrote the dumps also wrote a checkpoint.
C6_DumpsIffAbove063 ==
    /\ pc \in {"save", "next"} /\ eval_res # NoRes
         => (wrote_dumps <=> F_gt(eval_res[2], 63))
    /\ pc \in {"train", "eval", "done"} => ~wrote_dumps
    /\ pc = "next" /\ wrote_dumps => wrote_checkpoint

\* an epoch has written the dumps and the checkpoint
C6_Witness == pc = "next" /\ wrote_dumps /\ wrote_checkpoint /\ F_gt(eval_res[2], 63)

\* order of two entries of a penalty matrix: a <= b
EntryLeq(a, b) ==
    \/ a.k = "zero"
    \/ b.k = "inf"
    \/ a.k = "exp" /\ b.k = "exp" /\ a.e <= b.e

\* symmetric, ones on the diagonal, entries in (0, 1], an entry that depends
\* only on |i - j| and does not grow with it
WellFormedPenalties(m, n) ==
    /\ \A i, j \in Classes(n) : m[i][j] = m[j][i]
    /\ \A i \in Classes(n) : m[i][i] = [k |-> "exp", e |-> 0]
    /\ \A i, j \in Classes(n) : m[i][j].k = "exp" /\ m[i][j].e <= 0
    /\ \A i, j, k, l \in Classes(n) :
         /\ Abs(i - j) = Abs(k - l) => m[i][j] = m[k][l]
         /\ Abs(i - j) <= Abs(k - l) => EntryLeq(m[k][l], m[i][j])

\* C7 as stated: for all num_classes and gamma the matrix is symmetric, has
\* ones on the diagonal, entries in (0, 1] and entries that fall with |i - j|.
C7_WellFormedForAllGamma ==
    lpc = "idle" => WellFormedPenalties(penalty_matrix.data, num_classes)

\* C7, amended: the same for all num_classes and every gamma >= 0 with
\* gamma * (num_classes - 1) <= 87, for which every entry is a normal
\* single-precision number; the entries fall strictly for gamma >= 0.1.
C7_WellFormedForModerateGamma ==
    (lpc = "idle" /\ thegma >= 0 /\ thegma * (num_classes - 1) <= 870)
      => /\ WellFormedPenalties(penalty_matrix.data, num_classes)
         /\ thegma >= 1 =>
               \A i, j, k, l \in Classes(num_classes) :
                  Abs(i - j) < Abs(k - l)
                    => ~EntryLeq(penalty_matrix.data[i][j], penalty_matrix.data[k][l])

\* the matrix of the reference run (5 classes, gamma 0.8) has been built
C7_Witness ==
    /\ lpc = "idle" /\ thegma = 8 /\ num_classes = 5
    /\ penalty_matrix.data[0][4] = [k |-> "exp", e |-> -32]

\* C8: after any sequence of forward calls every entry of the penalty matrix
\* is the entry computed at construction, and num_classes, alpha, beta and
\* gamma are unchanged.
C8_PenaltyMatrixNeverMutated ==
    /\ [](penalty_matrix.data = create_hierarchical_penalty_matrix(num_classes, thegma))
    /\ [][UNCHANGED <<num_classes, alpha, beta, thegma>>]_vars

\* forward has run on a batch on the other device and moved the matrix there
C8_Witness ==
    /\ lpc = "returned" /\ penalty_matrix.device = "cuda" /\ thegma = 8
    /\ penalty_matrix.data = create_hierarchical_penalty_matrix(num_classes, thegma)

\* C9: with alpha = 1 and beta = 0 forward returns exactly the structured
\* (penalty-weighted log-likelihood) term, for every batch.
C9_ReducesToStructuredTerm ==
    (lpc = "returned" /\ alpha = 10 /\ beta = 0)
      => ret = structured_contrastive_loss(penalty_matrix, logits.data, targets)

\* position in the run, growing with every step
Progress ==
    epoch * (NumTrainBatches + NumDevBatches + 4)
    + (CASE pc = "train" -> train_i
         [] pc = "eval" -> NumTrainBatches + 1 + dev_i
         [] pc = "save" -> NumTrainBatches + NumDevBatches + 2
         [] pc = "next" -> NumTrainBatches + NumDevBatches + 3
         [] OTHER -> 0)

\* C10: the run makes exactly 10 epochs and ends; every epoch computes the
\* loss once per training batch, each with one parameter update; the
\* evaluation of an epoch runs once, after the epoch's training batches and
\* before the next epoch's; no parameter is updated during an evaluation.
C10_EpochStructure ==
    /\ [](/\ epoch <= epochs
          /\ pc = "done" <=> epoch = epochs
          /\ pc # "done" => ENABLED NextTrain
          /\ loss_calls = epoch * NumTrainBatches + train_i
          /\ opt_steps = loss_calls
          /\ pc \in {"eval", "save", "next"} => train_i = NumTrainBatches
          /\ evals = epoch + (IF pc \in {"save", "next"} THEN 1 ELSE 0))
    /\ [][/\ Progress' > Progress
          /\ pc = "eval" => opt_steps' = opt_steps
          /\ loss_calls' # loss_calls => (pc = "train" /\ evals = epoch)]_vars

\* the run has ended after 10 epochs
C10_Witness ==
    pc = "done" /\ epoch = 10 /\ evals = 10 /\ loss_calls = 10 * NumTrainBatches

====
